---- MODULE Spec2Model ----
(***************************************************************************)
(* A model of DatabaseComparator (src/main.py): run_comparison and its     *)
(* three stages compare_schemas, compare_columns and compare_row_data.     *)
(*                                                                         *)
(* Table names, column names and primary-key values are naturals standing  *)
(* for their rank in Python's string order, so that sorted() is ascending  *)
(* order on them.  The two MySQL servers are the environment: every query  *)
(* draws its outcome (an error, or a result set) from a bounded set.       *)
(***************************************************************************)
EXTENDS Naturals, Sequences, FiniteSets, TLC

\* Bounds of the model.
MaxTables == 2
MaxNames == 3
MaxCols == 2
MaxKeys == 2

TableNames == 1..MaxTables
SchemaNames == 1..MaxNames
ColNames == 1..MaxCols
KeyValues == 1..MaxKeys

VARIABLES
    pc,                 \* position in run_comparison
    conn1, conn2,       \* self.conn1, self.conn2: "none" | "open" | "closed"
    outcome,            \* the closing message printed: "none" | "completed" | "incomplete"
    raised,             \* the exception that reached run_comparison's handler
    tables1, tables2,   \* compare_schemas: set(get_tables(conn)) of either side
    schema_report,      \* compare_schemas: the table records, in order
    common_tables,      \* the value compare_schemas returned
    iter_order,         \* the order in which that set object is iterated
    colTodo,            \* compare_columns: tables the for loop has yet to reach
    colVisited,         \* compare_columns: tables whose loop body has run
    columns1, columns2, \* compare_columns: what get_table_schema returned, per table
    column_reports,     \* compare_columns: the column records, in order
    tables_with_column_differences,
    rowTodo,            \* compare_row_data: tables the for loop has yet to reach
    rowVisited,         \* compare_row_data: tables whose loop body has run
    key_query,          \* compare_row_data: the server's answer to SHOW KEYS, per table
    df1, df2,           \* compare_row_data: what get_table_data returned, per table
    dataFetched,        \* tables for which get_table_data was called
    rowOutcome,         \* compare_row_data: the message printed for the table
    data_reports,       \* compare_row_data: the row records, in order
    tables_with_data_differences

vars == <<pc, conn1, conn2, outcome, raised, tables1, tables2, schema_report,
          common_tables, iter_order, colTodo, colVisited, columns1, columns2,
          column_reports, tables_with_column_differences, rowTodo, rowVisited,
          key_query, df1, df2,
          dataFetched, rowOutcome, data_reports, tables_with_data_differences>>

connVars == <<conn1, conn2>>
schemaVars == <<tables1, tables2, schema_report, common_tables, iter_order>>
columnVars == <<colTodo, colVisited, columns1, columns2, column_reports,
                tables_with_column_differences>>
rowVars == <<rowTodo, rowVisited, key_query, df1, df2, dataFetched, rowOutcome,
             data_reports, tables_with_data_differences>>

(***************************************************************************)
(* Python built-ins                                                        *)
(***************************************************************************)

Range(s) == {s[i] : i \in 1..Len(s)}

Min(S) == CHOOSE x \in S : \A y \in S : x <= y

\* sorted(S): the elements of S in ascending order.
RECURSIVE sorted(_)
sorted(S) == IF S = {} THEN <<>> ELSE <<Min(S)>> \o sorted(S \ {Min(S)})

\* The records of report r about table t, in order.
OfTable(r, t) == SelectSeq(r, LAMBDA x : x.Table = t)

(***************************************************************************)
(* connect, disconnect                                                     *)
(***************************************************************************)

\* mysql.connector.connect for either instance: it returns a connection or raises.
ConnectOutcomes == {"ok", "fail1", "fail2"}

\* A faulty disconnect: it closes nothing unless both connections are open.
disconnectBothOrNone(c1, c2) ==
    IF c1 = "open" /\ c2 = "open" THEN <<"closed", "closed">> ELSE <<c1, c2>>

\* disconnect: each connection is closed if it is set and connected.
disconnect(c1, c2) ==
    <<IF c1 = "open" THEN "closed" ELSE c1, IF c2 = "open" THEN "closed" ELSE c2>>

(***************************************************************************)
(* get_tables, compare_schemas                                             *)
(***************************************************************************)

\* SHOW TABLES on one instance: an error, or table names among N.
TableListings(N) ==
    {[err |-> TRUE, names |-> {}]} \cup {[err |-> FALSE, names |-> S] : S \in SUBSET N}

\* get_tables: the names as the server lists them, or [] when the query fails.
get_tables(q) == IF q.err THEN <<>> ELSE sorted(q.names)

TableRecord(table, i1, i2, difference) ==
    [Table |-> table, Instance1 |-> i1, Instance2 |-> i2, Difference |-> difference]

OnlyInInstance1(t1, t2) == t1 \ t2

OnlyInInstance2(t1, t2) == t2 \ t1

\* A faulty common_tables: the union in place of the intersection.
CommonNotIntersected(t1, t2) == t1 \cup t2

CommonTables(t1, t2) == t1 \cap t2

Block(names, i1, i2, difference) ==
    [i \in 1..Len(names) |-> TableRecord(names[i], i1, i2, difference)]

\* A faulty schema_report: the common tables' block comes first.
SchemaReportCommonFirst(t1, t2) ==
    Block(sorted(CommonTables(t1, t2)), "Present", "Present", "None")
    \o Block(sorted(OnlyInInstance1(t1, t2)), "Present", "Missing", "Table missing in Instance 2")
    \o Block(sorted(OnlyInInstance2(t1, t2)), "Missing", "Present", "Table missing in Instance 1")

\* schema_report as compare_schemas builds it: three blocks, each sorted.
SchemaReport(t1, t2) ==
    Block(sorted(OnlyInInstance1(t1, t2)), "Present", "Missing", "Table missing in Instance 2")
    \o Block(sorted(OnlyInInstance2(t1, t2)), "Missing", "Present", "Table missing in Instance 1")
    \o Block(sorted(CommonTables(t1, t2)), "Present", "Present", "None")

\* Writing a report to its CSV file: csv.DictWriter takes its field names from the
\* first record (IndexError on an empty report); open() or a write may fail (OSError).
SaveCsv(report, ioOk) ==
    IF report = <<>> THEN "IndexError" ELSE IF ioOk THEN "none" ELSE "OSError"

\* A faulty compare_schemas: without the early return when neither side has a table.
compare_schemas_unguarded(q1, q2, ioOk) ==
    LET t1 == Range(get_tables(q1))
        t2 == Range(get_tables(q2))
    IN  [tables1 |-> t1, tables2 |-> t2, report |-> SchemaReport(t1, t2),
         raised |-> SaveCsv(SchemaReport(t1, t2), ioOk),
         common |-> IF SaveCsv(SchemaReport(t1, t2), ioOk) = "none"
                    THEN CommonTables(t1, t2) ELSE {}]

\* compare_schemas: the two table sets, the records emitted, the exception raised
\* ("none": it returned) and the value returned.
compare_schemas(q1, q2, ioOk) ==
    LET t1 == Range(get_tables(q1))
        t2 == Range(get_tables(q2))
    IN  IF t1 = {} /\ t2 = {}
        THEN [tables1 |-> t1, tables2 |-> t2, report |-> <<>>, raised |-> "none",
              common |-> {}]
        ELSE [tables1 |-> t1, tables2 |-> t2, report |-> SchemaReport(t1, t2),
              raised |-> SaveCsv(SchemaReport(t1, t2), ioOk),
              common |-> IF SaveCsv(SchemaReport(t1, t2), ioOk) = "none"
                         THEN CommonTables(t1, t2) ELSE {}]

(***************************************************************************)
(* get_table_schema, compare_columns                                       *)
(***************************************************************************)

\* A Python value that is None or a string, and str() of it.
PyNone == [none |-> TRUE, s |-> ""]

PyStr(x) == [none |-> FALSE, s |-> x]

str(v) == IF v.none THEN "None" ELSE v.s

\* One row of SHOW COLUMNS.
BaseColumn(f) ==
    [Field |-> f, Type |-> "int", Null |-> "NO", Key |-> "", Default |-> PyNone,
     Extra |-> ""]

\* The column definitions the environment may hold for column f.
ColumnDefinitions(f) ==
    {BaseColumn(f),
     [BaseColumn(f) EXCEPT !.Type = "varchar(255)"],
     [BaseColumn(f) EXCEPT !.Null = "YES"],
     [BaseColumn(f) EXCEPT !.Key = "PRI"],
     [BaseColumn(f) EXCEPT !.Default = PyStr("None")],
     [BaseColumn(f) EXCEPT !.Default = PyStr("NULL")],
     [BaseColumn(f) EXCEPT !.Extra = "auto_increment"]}

\* The sets of rows SHOW COLUMNS may return over the columns F: one row per column.
RECURSIVE ColumnSets(_)
ColumnSets(F) ==
    IF F = {} THEN {{}}
    ELSE LET f == Min(F)
         IN  UNION {{rows \cup {d} : d \in ColumnDefinitions(f)} : rows \in ColumnSets(F \ {f})}

\* SHOW COLUMNS FROM a table on one instance: an error, or its rows.
SchemaError == [err |-> TRUE, rows |-> {}]

SchemaQueries ==
    {SchemaError} \cup {[err |-> FALSE, rows |-> rows] : rows \in UNION {ColumnSets(F) : F \in SUBSET ColNames}}

\* get_table_schema: the rows, or None when the query fails.
get_table_schema(q) ==
    IF q.err THEN [none |-> TRUE, rows |-> {}] ELSE [none |-> FALSE, rows |-> q.rows]

\* {col['Field']: col for col in columns}
columns_dict(rows) ==
    [f \in {c.Field : c \in rows} |-> CHOOSE c \in rows : c.Field = f]

ColumnRecord(table, col, status, c1, c2, difference) ==
    [Table |-> table, Column |-> col, Status |-> status,
     Type1 |-> c1.Type, Null1 |-> c1.Null, Key1 |-> c1.Key, Default1 |-> c1.Default,
     Extra1 |-> c1.Extra,
     Type2 |-> c2.Type, Null2 |-> c2.Null, Key2 |-> c2.Key, Default2 |-> c2.Default,
     Extra2 |-> c2.Extra,
     Difference |-> difference]

\* The "N/A" fields of a column missing on one side.
NotApplicable ==
    [Type |-> "N/A", Null |-> "N/A", Key |-> "N/A", Default |-> PyStr("N/A"),
     Extra |-> "N/A"]

\* str(col1['Default']) != str(col2['Default'])
DefaultDiffers(c1, c2) == str(c1.Default) # str(c2.Default)

\* differences: one part per differing property of a column both sides hold, in the
\* order Type, Null, Key, Default, Extra.
ColumnDifferences(c1, c2) ==
    (IF c1.Type # c2.Type THEN <<<<"Type", c1.Type, c2.Type>>>> ELSE <<>>)
    \o (IF c1.Null # c2.Null THEN <<<<"Null", c1.Null, c2.Null>>>> ELSE <<>>)
    \o (IF c1.Key # c2.Key THEN <<<<"Key", c1.Key, c2.Key>>>> ELSE <<>>)
    \o (IF DefaultDiffers(c1, c2)
        THEN <<<<"Default", str(c1.Default), str(c2.Default)>>>> ELSE <<>>)
    \o (IF c1.Extra # c2.Extra THEN <<<<"Extra", c1.Extra, c2.Extra>>>> ELSE <<>>)

\* The records of one column of the loop over sorted(all_columns): at most one.
CompareColumn(table, col, d1, d2) ==
    IF col \in DOMAIN d1 /\ col \notin DOMAIN d2
    THEN <<ColumnRecord(table, col, "Only in Instance 1", d1[col], NotApplicable,
                        <<<<"Column missing in Instance 2">>>>)>>
    ELSE IF col \in DOMAIN d2 /\ col \notin DOMAIN d1
    THEN <<ColumnRecord(table, col, "Only in Instance 2", NotApplicable, d2[col],
                        <<<<"Column missing in Instance 1">>>>)>>
    ELSE IF ColumnDifferences(d1[col], d2[col]) # <<>>
    THEN <<ColumnRecord(table, col, "Different", d1[col], d2[col],
                        ColumnDifferences(d1[col], d2[col]))>>
    ELSE <<>>

\* table_column_report: the loop over the columns cols, a sorted sequence.
RECURSIVE TableColumnReport(_, _, _, _)
TableColumnReport(table, cols, d1, d2) ==
    IF cols = <<>> THEN <<>>
    ELSE CompareColumn(table, Head(cols), d1, d2)
         \o TableColumnReport(table, Tail(cols), d1, d2)

\* One pass of compare_columns' loop body over what get_table_schema returned:
\* whether the table was skipped, and its records.
compare_table_columns(table, c1, c2) ==
    IF c1.none \/ c2.none
    THEN [skipped |-> TRUE, report |-> <<>>]
    ELSE LET d1 == columns_dict(c1.rows)
             d2 == columns_dict(c2.rows)
             all_columns == DOMAIN d1 \cup DOMAIN d2
         IN  [skipped |-> FALSE,
              report |-> TableColumnReport(table, sorted(all_columns), d1, d2)]

(***************************************************************************)
(* get_primary_keys, get_table_data, compare_row_data                      *)
(***************************************************************************)

\* SHOW KEYS ... WHERE Key_name = 'PRIMARY' on instance 1: an error, or the key's
\* column names (none for a table without a primary key).
KeysError == [err |-> TRUE, cols |-> <<>>]

\* get_primary_keys: the key's columns, or [] when the query fails.
get_primary_keys(q) == IF q.err THEN <<>> ELSE q.cols

\* The column lists of the tables held: every column in the primary key, or the key
\* and two data columns.
TableShapes == {<<"id">>, <<"id", "v", "w">>}

\* The non-key cells of one row, by column: None is SQL NULL.
CellRows(columns) ==
    IF columns = <<"id">> THEN {<<>>}
    ELSE {[v |-> PyStr("a"), w |-> PyNone],
          [v |-> PyStr("b"), w |-> PyNone],
          [v |-> PyStr("b"), w |-> PyStr("a")]}

\* The orders in which a SELECT may return rows of distinct primary keys.
KeyOrders ==
    {ks \in UNION {[1..n -> KeyValues] : n \in 0..MaxKeys} :
        \A i, j \in DOMAIN ks : ks[i] = ks[j] => i = j}

\* SELECT * FROM a table of the given columns: its rows, in any order.
RowSets(columns) ==
    UNION {{[i \in DOMAIN ks |-> [id |-> ks[i], cells |-> cs[i]]] :
                cs \in [DOMAIN ks -> CellRows(columns)]} : ks \in KeyOrders}

DataError == [err |-> TRUE, columns |-> <<>>, rows |-> <<>>]

DataQueries(columns) ==
    {[err |-> FALSE, columns |-> columns, rows |-> rows] : rows \in RowSets(columns)}

\* get_table_data: the DataFrame, or None when pd.read_sql fails.
get_table_data(q) ==
    IF q.err THEN [none |-> TRUE, columns |-> <<>>, rows |-> <<>>]
    ELSE [none |-> FALSE, columns |-> q.columns, rows |-> q.rows]

\* pd.isna
isna(v) == v.none

FrameKeys(df) == {df.rows[i].id : i \in DOMAIN df.rows}

RowOf(df, k) == df.rows[CHOOSE i \in DOMAIN df.rows : df.rows[i].id = k]

\* The columns pd.merge gives the merged frame besides the key and _merge: a column
\* both frames hold gets the suffixes _1 and _2, any other keeps its name.
MergedColumns(a, b, pk) ==
    LET ca == Range(a.columns) \ Range(pk)
        cb == Range(b.columns) \ Range(pk)
    IN  {<<c, "_1">> : c \in ca \cap cb} \cup {<<c, "_2">> : c \in ca \cap cb}
        \cup {<<c, "">> : c \in (ca \cup cb) \ (ca \cap cb)}

\* One cell of the merged frame: NaN where the side has no row of that key.
MergedCell(a, b, k, mc) ==
    IF mc[2] = "_2" \/ (mc[2] = "" /\ mc[1] \notin Range(a.columns))
    THEN (IF k \in FrameKeys(b) THEN RowOf(b, k).cells[mc[1]] ELSE PyNone)
    ELSE (IF k \in FrameKeys(a) THEN RowOf(a, k).cells[mc[1]] ELSE PyNone)

MergedRow(a, b, pk, k) ==
    [id |-> k,
     merge |-> IF k \notin FrameKeys(b) THEN "left_only"
               ELSE IF k \notin FrameKeys(a) THEN "right_only" ELSE "both",
     cells |-> [mc \in MergedColumns(a, b, pk) |-> MergedCell(a, b, k, mc)]]

\* pd.merge(df1, df2, on=pk_columns, how='outer', suffixes=('_1', '_2'),
\* indicator=True): one row per key of either frame, in ascending key order.
merge(a, b, pk) ==
    LET keys == sorted(FrameKeys(a) \cup FrameKeys(b))
    IN  [i \in DOMAIN keys |-> MergedRow(a, b, pk, keys[i])]

\* [col for col in df1.columns if col not in pk_columns]
data_columns(a, pk) == SelectSeq(a.columns, LAMBDA c : c \notin Range(pk))

\* (col1 != col2) & ~(col1.isna() & col2.isna()), for one row: != holds of a null.
CellDiffers(x, y) == (isna(x) \/ isna(y) \/ x.s # y.s) /\ ~(isna(x) /\ isna(y))

\* diff_mask of one row of in_both: some data column differs.
diff_mask(row, dcols) ==
    \E i \in DOMAIN dcols : CellDiffers(row.cells[<<dcols[i], "_1">>], row.cells[<<dcols[i], "_2">>])

\* format_pk: the key's values, to be joined by ", ".
format_pk(row, pk) == [i \in DOMAIN pk |-> row.id]

RowRecord(table, key, status, column, v1, v2, difference) ==
    [Table |-> table, PrimaryKey |-> key, Status |-> status, Column |-> column,
     Value1 |-> v1, Value2 |-> v2, Difference |-> difference]

OnlyRecord1(table, row, pk) ==
    RowRecord(table, format_pk(row, pk), "Only in Instance 1", "ALL", "Exists", "Missing",
              <<"Row missing in Instance 2">>)

OnlyRecord2(table, row, pk) ==
    RowRecord(table, format_pk(row, pk), "Only in Instance 2", "ALL", "Missing", "Exists",
              <<"Row missing in Instance 1">>)

\* A faulty skip: without the test that both values are null.
SkipCellEqualOnly(x, y) == ~isna(x) /\ ~isna(y) /\ x.s = y.s

\* (val1 == val2) or (pd.isna(val1) and pd.isna(val2)): NaN == NaN is false.
SkipCell(x, y) == (~isna(x) /\ ~isna(y) /\ x.s = y.s) \/ (isna(x) /\ isna(y))

\* The records of one row of different_rows: one per data column not skipped.
RECURSIVE DifferentValues(_, _, _, _)
DifferentValues(table, row, pk, dcols) ==
    IF dcols = <<>> THEN <<>>
    ELSE LET col == Head(dcols)
             val1 == row.cells[<<col, "_1">>]
             val2 == row.cells[<<col, "_2">>]
         IN  (IF SkipCell(val1, val2) THEN <<>>
              ELSE <<RowRecord(table, format_pk(row, pk), "Different Values", col,
                               str(val1), str(val2),
                               <<"Different values", str(val1), str(val2)>>)>>)
             \o DifferentValues(table, row, pk, Tail(dcols))

\* The loop over the merged rows that builds one block of table_data_report.
RECURSIVE RowBlock(_, _, _, _, _)
RowBlock(table, rows, pk, dcols, block) ==
    IF rows = <<>> THEN <<>>
    ELSE LET row == Head(rows)
         IN  (IF block = "only1" /\ row.merge = "left_only"
              THEN <<OnlyRecord1(table, row, pk)>>
              ELSE IF block = "only2" /\ row.merge = "right_only"
              THEN <<OnlyRecord2(table, row, pk)>>
              ELSE IF block = "different" /\ row.merge = "both" /\ diff_mask(row, dcols)
              THEN DifferentValues(table, row, pk, dcols)
              ELSE <<>>)
             \o RowBlock(table, Tail(rows), pk, dcols, block)

\* table_data_report: rows only in instance 1, rows only in instance 2, then the
\* differing cells of the rows in both.
TableDataReport(table, merged, pk, dcols) ==
    RowBlock(table, merged, pk, dcols, "only1")
    \o RowBlock(table, merged, pk, dcols, "only2")
    \o RowBlock(table, merged, pk, dcols, "different")

\* The KeyError the body raises: in_both[False] when there is no data column
\* (diff_mask is still False), in_both[f"{col}_1"] when instance 2 lacks the column.
RaisesKeyError(a, b, pk) ==
    \/ data_columns(a, pk) = <<>>
    \/ \E c \in Range(data_columns(a, pk)) : <<c, "_1">> \notin MergedColumns(a, b, pk)

\* The pass ran to its end with table_data_report = report.
Compared(report) ==
    [outcome |-> IF report # <<>> THEN "differences" ELSE "no_differences",
     fetched |-> TRUE, report |-> report]

\* A faulty test: a table without a primary key is not skipped.
HasNoPrimaryKeyNever(pk) == FALSE

\* not pk_columns
HasNoPrimaryKey(pk) == pk = <<>>

\* A faulty pass: the records go straight into data_reports, so those of the rows on
\* one side only are already there when the KeyError is raised.
compare_table_rows_partial(table, kq, q1, q2) ==
    LET pk == get_primary_keys(kq)
        a == get_table_data(q1)
        b == get_table_data(q2)
    IN  IF HasNoPrimaryKey(pk)
        THEN [outcome |-> "no_primary_key", fetched |-> FALSE, report |-> <<>>]
        ELSE IF a.none \/ b.none
        THEN [outcome |-> "skipped", fetched |-> TRUE, report |-> <<>>]
        ELSE IF RaisesKeyError(a, b, pk)
        THEN [outcome |-> "error", fetched |-> TRUE,
              report |-> RowBlock(table, merge(a, b, pk), pk, <<>>, "only1")
                         \o RowBlock(table, merge(a, b, pk), pk, <<>>, "only2")]
        ELSE Compared(TableDataReport(table, merge(a, b, pk), pk, data_columns(a, pk)))

\* One pass of compare_row_data's loop body: the message printed for the table,
\* whether get_table_data was called, and the table's records.
compare_table_rows(table, kq, q1, q2) ==
    LET pk == get_primary_keys(kq)
        a == get_table_data(q1)
        b == get_table_data(q2)
    IN  IF HasNoPrimaryKey(pk)
        THEN [outcome |-> "no_primary_key", fetched |-> FALSE, report |-> <<>>]
        ELSE IF a.none \/ b.none
        THEN [outcome |-> "skipped", fetched |-> TRUE, report |-> <<>>]
        ELSE IF RaisesKeyError(a, b, pk)
        THEN [outcome |-> "error", fetched |-> TRUE, report |-> <<>>]
        ELSE Compared(TableDataReport(table, merge(a, b, pk), pk, data_columns(a, pk)))

(***************************************************************************)
(* run_comparison                                                          *)
(***************************************************************************)

\* The orders in which a for loop may iterate over the set S.
Orders(S) ==
    {o \in [1..Cardinality(S) -> S] : \A i, j \in 1..Cardinality(S) : o[i] = o[j] => i = j}

\* A faulty loop: a skipped table ends it (break in place of continue).
LoopRestBreakOnSkip(todo, skipped) == IF skipped THEN <<>> ELSE Tail(todo)

\* What is left of a for loop over the tables after one pass of its body, whether
\* the pass ran to its end or left by continue.
LoopRest(todo, skipped) == Tail(todo)

NoSchema == [none |-> TRUE, rows |-> {}]

NoFrame == [none |-> TRUE, columns |-> <<>>, rows |-> <<>>]

\* The state after __init__, as run_comparison starts.
Init ==
    /\ pc = "connect"
    /\ conn1 = "none"
    /\ conn2 = "none"
    /\ outcome = "none"
    /\ raised = "none"
    /\ tables1 = {}
    /\ tables2 = {}
    /\ schema_report = <<>>
    /\ common_tables = {}
    /\ iter_order = <<>>
    /\ colTodo = <<>>
    /\ colVisited = {}
    /\ columns1 = [t \in TableNames |-> NoSchema]
    /\ columns2 = [t \in TableNames |-> NoSchema]
    /\ column_reports = <<>>
    /\ tables_with_column_differences = 0
    /\ rowTodo = <<>>
    /\ rowVisited = {}
    /\ key_query = [t \in TableNames |-> KeysError]
    /\ df1 = [t \in TableNames |-> NoFrame]
    /\ df2 = [t \in TableNames |-> NoFrame]
    /\ dataFetched = {}
    /\ rowOutcome = [t \in TableNames |-> "none"]
    /\ data_reports = <<>>
    /\ tables_with_data_differences = 0

\* A faulty connect: the failure is printed and not re-raised, so the run goes on.
ConnectSwallowsFailure ==
    /\ pc = "connect"
    /\ \E r \in ConnectOutcomes :
        /\ conn1' = IF r = "fail1" THEN "none" ELSE "open"
        /\ conn2' = IF r = "ok" THEN "open" ELSE "none"
        /\ raised' = "none"
        /\ pc' = "schemas"
    /\ UNCHANGED <<outcome, schemaVars, columnVars, rowVars>>

\* self.connect(): conn1, then conn2; a failure is re-raised.
Connect ==
    /\ pc = "connect"
    /\ \E r \in ConnectOutcomes :
        /\ conn1' = IF r = "fail1" THEN "none" ELSE "open"
        /\ conn2' = IF r = "ok" THEN "open" ELSE "none"
        /\ raised' = IF r = "ok" THEN "none" ELSE "mysql.connector.Error"
        /\ pc' = IF r = "ok" THEN "schemas" ELSE "except"
    /\ UNCHANGED <<outcome, schemaVars, columnVars, rowVars>>

\* common_tables = self.compare_schemas(), and the test of common_tables.
CompareSchemas(listings) ==
    /\ pc = "schemas"
    /\ \E q1 \in listings, q2 \in listings, ioOk \in BOOLEAN :
        LET r == compare_schemas(q1, q2, ioOk)
        IN  \E o \in Orders(r.common) :
            /\ tables1' = r.tables1
            /\ tables2' = r.tables2
            /\ schema_report' = r.report
            /\ common_tables' = r.common
            /\ iter_order' = o
            /\ colTodo' = o
            /\ raised' = r.raised
            /\ pc' = IF r.raised # "none" THEN "except"
                     ELSE IF r.common = {} THEN "completed" ELSE "columns"
    /\ UNCHANGED <<connVars, outcome, colVisited, columns1, columns2, column_reports,
                   tables_with_column_differences, rowVars>>

\* One pass of the loop of compare_columns, the servers answering q1 and q2.
CompareColumnsTable(q1, q2) ==
    /\ pc = "columns"
    /\ colTodo # <<>>
    /\ \E table \in {Head(colTodo)}, c1 \in {get_table_schema(q1)}, c2 \in {get_table_schema(q2)} :
        \E r \in {compare_table_columns(table, c1, c2)} :
            /\ columns1' = [columns1 EXCEPT ![table] = c1]
            /\ columns2' = [columns2 EXCEPT ![table] = c2]
            /\ colVisited' = colVisited \cup {table}
            /\ column_reports' = column_reports \o r.report
            /\ tables_with_column_differences' =
                   tables_with_column_differences + (IF r.report # <<>> THEN 1 ELSE 0)
            /\ colTodo' = LoopRest(colTodo, r.skipped)
    /\ UNCHANGED <<pc, connVars, outcome, raised, schemaVars, rowVars>>

\* The end of compare_columns: the report is saved if it holds a record.
CompareColumnsEnd ==
    /\ pc = "columns"
    /\ colTodo = <<>>
    /\ \E ioOk \in BOOLEAN :
        LET e == IF column_reports = <<>> THEN "none" ELSE SaveCsv(column_reports, ioOk)
        IN  /\ raised' = e
            /\ pc' = IF e = "none" THEN "rows" ELSE "except"
            /\ rowTodo' = IF e = "none" THEN iter_order ELSE <<>>
    /\ UNCHANGED <<connVars, outcome, schemaVars, columnVars, rowVisited, key_query, df1,
                   df2, dataFetched, rowOutcome, data_reports,
                   tables_with_data_differences>>

\* One pass of the loop of compare_row_data, the servers answering kq, q1 and q2.
CompareRowsTable(kq, q1, q2) ==
    /\ pc = "rows"
    /\ rowTodo # <<>>
    /\ \E table \in {Head(rowTodo)} : \E r \in {compare_table_rows(table, kq, q1, q2)} :
            /\ key_query' = [key_query EXCEPT ![table] = kq]
            /\ df1' = IF r.fetched THEN [df1 EXCEPT ![table] = get_table_data(q1)] ELSE df1
            /\ df2' = IF r.fetched THEN [df2 EXCEPT ![table] = get_table_data(q2)] ELSE df2
            /\ dataFetched' = IF r.fetched THEN dataFetched \cup {table} ELSE dataFetched
            /\ rowVisited' = rowVisited \cup {table}
            /\ rowOutcome' = [rowOutcome EXCEPT ![table] = r.outcome]
            /\ data_reports' = data_reports \o r.report
            /\ tables_with_data_differences' =
                   tables_with_data_differences + (IF r.report # <<>> THEN 1 ELSE 0)
            /\ rowTodo' = LoopRest(rowTodo, r.outcome \in {"no_primary_key", "skipped", "error"})
    /\ UNCHANGED <<pc, connVars, outcome, raised, schemaVars, columnVars>>

\* The end of compare_row_data: the report is saved if it holds a record.
CompareRowsEnd ==
    /\ pc = "rows"
    /\ rowTodo = <<>>
    /\ \E ioOk \in BOOLEAN :
        LET e == IF data_reports = <<>> THEN "none" ELSE SaveCsv(data_reports, ioOk)
        IN  /\ raised' = e
            /\ pc' = IF e = "none" THEN "completed" ELSE "except"
    /\ UNCHANGED <<connVars, outcome, schemaVars, columnVars, rowVars>>

\* print("=== Comparison completed successfully! ===")
Completed ==
    /\ pc = "completed"
    /\ outcome' = "completed"
    /\ pc' = "finally"
    /\ UNCHANGED <<connVars, raised, schemaVars, columnVars, rowVars>>

\* except Exception: print("Comparison incomplete due to errors.")
Except ==
    /\ pc = "except"
    /\ outcome' = "incomplete"
    /\ pc' = "finally"
    /\ UNCHANGED <<connVars, raised, schemaVars, columnVars, rowVars>>

\* finally: self.disconnect()
Disconnect ==
    /\ pc = "finally"
    /\ conn1' = disconnect(conn1, conn2)[1]
    /\ conn2' = disconnect(conn1, conn2)[2]
    /\ pc' = "done"
    /\ UNCHANGED <<outcome, raised, schemaVars, columnVars, rowVars>>

\* The answers of the two servers drawn in a whole run: per table, a failed fetch on
\* either side, equal definitions, and definitions that differ.
RunSchemaFetches ==
    LET x == [err |-> FALSE, rows |-> {BaseColumn(1)}]
        y == [err |-> FALSE, rows |-> {[BaseColumn(1) EXCEPT !.Type = "varchar(255)"]}]
    IN  {<<SchemaError, x>>, <<x, SchemaError>>, <<x, x>>, <<x, y>>}

RunRowFetches ==
    LET key == [err |-> FALSE, cols |-> <<"id">>]
        row(k, c) == [id |-> k, cells |-> c]
        a == [v |-> PyStr("a"), w |-> PyStr("a")]
        b == [v |-> PyStr("b"), w |-> PyStr("a")]
        x == [err |-> FALSE, columns |-> <<"id", "v", "w">>, rows |-> <<row(1, a)>>]
        y == [err |-> FALSE, columns |-> <<"id", "v", "w">>, rows |-> <<row(2, a), row(1, b)>>]
        z == [err |-> FALSE, columns |-> <<"id">>, rows |-> <<row(1, <<>>)>>]
        e == [err |-> FALSE, columns |-> <<"id">>, rows |-> <<>>]
    IN  {<<KeysError, DataError, DataError>>,
         <<[err |-> FALSE, cols |-> <<>>], DataError, DataError>>,
         <<key, DataError, x>>, <<key, x, DataError>>, <<key, z, e>>,
         <<key, x, x>>, <<key, x, y>>}

\* A pass of either loop in a whole run.
RunCompareColumnsTable ==
    /\ pc = "columns"
    /\ \E f \in RunSchemaFetches : CompareColumnsTable(f[1], f[2])

RunCompareRowsTable ==
    /\ pc = "rows"
    /\ \E f \in RunRowFetches : CompareRowsTable(f[1], f[2], f[3])

Next ==
    \/ Connect
    \/ CompareSchemas(TableListings(TableNames))
    \/ RunCompareColumnsTable
    \/ CompareColumnsEnd
    \/ RunCompareRowsTable
    \/ CompareRowsEnd
    \/ Completed
    \/ Except
    \/ Disconnect

Spec == Init /\ [][Next]_vars

(***************************************************************************)
(* compare_schemas alone, over every pair of table listings                *)
(***************************************************************************)

InitSchemas ==
    /\ pc = "schemas"
    /\ conn1 = "open"
    /\ conn2 = "open"
    /\ outcome = "none"
    /\ raised = "none"
    /\ tables1 = {}
    /\ tables2 = {}
    /\ schema_report = <<>>
    /\ common_tables = {}
    /\ iter_order = <<>>
    /\ colTodo = <<>>
    /\ colVisited = {}
    /\ columns1 = [t \in TableNames |-> NoSchema]
    /\ columns2 = [t \in TableNames |-> NoSchema]
    /\ column_reports = <<>>
    /\ tables_with_column_differences = 0
    /\ rowTodo = <<>>
    /\ rowVisited = {}
    /\ key_query = [t \in TableNames |-> KeysError]
    /\ df1 = [t \in TableNames |-> NoFrame]
    /\ df2 = [t \in TableNames |-> NoFrame]
    /\ dataFetched = {}
    /\ rowOutcome = [t \in TableNames |-> "none"]
    /\ data_reports = <<>>
    /\ tables_with_data_differences = 0

NextSchemas == CompareSchemas(TableListings(SchemaNames))

SpecSchemas == InitSchemas /\ [][NextSchemas]_vars

(***************************************************************************)
(* compare_columns alone, on one common table, over every pair of answers  *)
(***************************************************************************)

\* The state in which compare_columns is entered with table 1 common.
InitColumns ==
    /\ pc = "columns"
    /\ conn1 = "open"
    /\ conn2 = "open"
    /\ outcome = "none"
    /\ raised = "none"
    /\ tables1 = {1}
    /\ tables2 = {1}
    /\ schema_report = SchemaReport({1}, {1})
    /\ common_tables = {1}
    /\ iter_order = <<1>>
    /\ colTodo = <<1>>
    /\ colVisited = {}
    /\ columns1 = [t \in TableNames |-> NoSchema]
    /\ columns2 = [t \in TableNames |-> NoSchema]
    /\ column_reports = <<>>
    /\ tables_with_column_differences = 0
    /\ rowTodo = <<>>
    /\ rowVisited = {}
    /\ key_query = [t \in TableNames |-> KeysError]
    /\ df1 = [t \in TableNames |-> NoFrame]
    /\ df2 = [t \in TableNames |-> NoFrame]
    /\ dataFetched = {}
    /\ rowOutcome = [t \in TableNames |-> "none"]
    /\ data_reports = <<>>
    /\ tables_with_data_differences = 0

NextColumns ==
    /\ colTodo # <<>>
    /\ \E q1 \in SchemaQueries, q2 \in SchemaQueries : CompareColumnsTable(q1, q2)

SpecColumns == InitColumns /\ [][NextColumns]_vars

(***************************************************************************)
(* compare_row_data alone, on one common table, over every triple of       *)
(* answers in which both instances hold the table with the same columns    *)
(***************************************************************************)

\* The state in which compare_row_data is entered with table 1 common, its column
\* definitions equal on both sides.
InitRows ==
    /\ pc = "rows"
    /\ conn1 = "open"
    /\ conn2 = "open"
    /\ outcome = "none"
    /\ raised = "none"
    /\ tables1 = {1}
    /\ tables2 = {1}
    /\ schema_report = SchemaReport({1}, {1})
    /\ common_tables = {1}
    /\ iter_order = <<1>>
    /\ colTodo = <<>>
    /\ colVisited = {1}
    /\ columns1 = [t \in TableNames |->
                     IF t = 1 THEN [none |-> FALSE, rows |-> {BaseColumn(1)}] ELSE NoSchema]
    /\ columns2 = [t \in TableNames |->
                     IF t = 1 THEN [none |-> FALSE, rows |-> {BaseColumn(1)}] ELSE NoSchema]
    /\ column_reports = <<>>
    /\ tables_with_column_differences = 0
    /\ rowTodo = <<1>>
    /\ rowVisited = {}
    /\ key_query = [t \in TableNames |-> KeysError]
    /\ df1 = [t \in TableNames |-> NoFrame]
    /\ df2 = [t \in TableNames |-> NoFrame]
    /\ dataFetched = {}
    /\ rowOutcome = [t \in TableNames |-> "none"]
    /\ data_reports = <<>>
    /\ tables_with_data_differences = 0

\* The primary key could not be read, or there is none: no data is fetched.
CompareRowsNoKey ==
    /\ rowTodo # <<>>
    /\ \E kq \in {KeysError, [err |-> FALSE, cols |-> <<>>]} :
        CompareRowsTable(kq, DataError, DataError)

\* The primary key is id: the data is fetched from both instances.
CompareRowsKeyed ==
    /\ rowTodo # <<>>
    /\ \E shape \in TableShapes :
        \E q1 \in {DataError} \cup DataQueries(shape), q2 \in {DataError} \cup DataQueries(shape) :
            CompareRowsTable([err |-> FALSE, cols |-> <<"id">>], q1, q2)

NextRows == CompareRowsNoKey \/ CompareRowsKeyed

SpecRows == InitRows /\ [][NextRows]_vars

(***************************************************************************)
(* Properties                                                              *)
(***************************************************************************)

\* The table names of the records of schema_report whose presence fields are i1, i2.
Group(i1, i2) ==
    {schema_report[i].Table :
        i \in {j \in DOMAIN schema_report :
                  schema_report[j].Instance1 = i1 /\ schema_report[j].Instance2 = i2}}

\* C1: once compare_schemas has returned, the records' three groups are A \ B, B \ A
\* and A \cap B for the table sets A and B of the two instances, every name of
\* A \cup B has exactly one record, no record is outside the three groups, and the
\* value returned is A \cap B.
C1_TablePartition ==
    pc \in {"columns", "completed"} =>
        /\ Group("Present", "Missing") = tables1 \ tables2
        /\ Group("Missing", "Present") = tables2 \ tables1
        /\ Group("Present", "Present") = tables1 \cap tables2
        /\ Group("Missing", "Missing") = {}
        /\ \A n \in tables1 \cup tables2 :
              Cardinality({i \in DOMAIN schema_report : schema_report[i].Table = n}) = 1
        /\ Len(schema_report) = Cardinality(tables1 \cup tables2)
        /\ common_tables = tables1 \cap tables2

C1_Witness ==
    /\ pc = "columns"
    /\ tables1 \ tables2 # {}
    /\ tables2 \ tables1 # {}
    /\ Cardinality(common_tables) = 1
    /\ Len(schema_report) = 3

\* The block of a table record: 1 only in instance 1, 2 only in instance 2, 3 common.
BlockOf(r) == IF r.Instance2 = "Missing" THEN 1 ELSE IF r.Instance1 = "Missing" THEN 2 ELSE 3

\* C2: in schema_report the records only in instance 1 come first, then those only in
\* instance 2, then the common ones, and within a block the table names ascend.
C2_ReportOrder ==
    \A i, j \in DOMAIN schema_report :
        i < j =>
            \/ BlockOf(schema_report[i]) < BlockOf(schema_report[j])
            \/ /\ BlockOf(schema_report[i]) = BlockOf(schema_report[j])
               /\ schema_report[i].Table < schema_report[j].Table

C2_Witness ==
    /\ Len(schema_report) = 3
    /\ BlockOf(schema_report[1]) = BlockOf(schema_report[2])
    /\ BlockOf(schema_report[2]) < BlockOf(schema_report[3])

HasColumnRecord(t, col) ==
    \E i \in DOMAIN column_reports :
        column_reports[i].Table = t /\ column_reports[i].Column = col

\* C3: for a table whose column metadata was fetched from both instances, a column
\* has a record if and only if it is absent on one side or one of its attributes
\* (type, nullable, key, default, extra) differs between the sides.
C3_RecordIffDiffers ==
    \A t \in colVisited :
        (~columns1[t].none /\ ~columns2[t].none) =>
            LET d1 == columns_dict(columns1[t].rows)
                d2 == columns_dict(columns2[t].rows)
            IN  \A col \in ColNames :
                    HasColumnRecord(t, col) <=>
                        \/ (col \in DOMAIN d1) # (col \in DOMAIN d2)
                        \/ col \in DOMAIN d1 /\ col \in DOMAIN d2 /\ d1[col] # d2[col]

\* C4: a column on both sides whose definitions differ only in the default, a null on
\* one side and the text "NULL" on the other, has no record.
C4_NullEncodings ==
    \A t \in colVisited :
        (~columns1[t].none /\ ~columns2[t].none) =>
            LET d1 == columns_dict(columns1[t].rows)
                d2 == columns_dict(columns2[t].rows)
            IN  \A col \in DOMAIN d1 \cap DOMAIN d2 :
                    ( /\ [d1[col] EXCEPT !.Default = PyNone] = [d2[col] EXCEPT !.Default = PyNone]
                      /\ {d1[col].Default, d2[col].Default} = {PyNone, PyStr("NULL")} )
                    => ~HasColumnRecord(t, col)

\* The places in data_reports of the records of table t, key k, with this status and column.
RowRecords(t, k, status, column) ==
    {i \in DOMAIN data_reports :
        /\ data_reports[i].Table = t
        /\ data_reports[i].PrimaryKey = <<k>>
        /\ data_reports[i].Status = status
        /\ data_reports[i].Column = column}

\* Table t went through the loop of compare_row_data with a primary key and with its
\* rows fetched from both instances.
RowsFetched(t) ==
    /\ t \in rowVisited
    /\ get_primary_keys(key_query[t]) # <<>>
    /\ t \in dataFetched
    /\ ~df1[t].none
    /\ ~df2[t].none

\* C5: for a table with a primary key whose rows were fetched from both instances,
\* every key only on instance 1 has exactly one record with column "ALL" and status
\* "Only in Instance 1", every key only on instance 2 exactly one with status "Only in
\* Instance 2", and no other key has such a record.
C5_UnmatchedKeys ==
    \A t \in TableNames :
        RowsFetched(t) =>
            \A k \in KeyValues :
                /\ Cardinality(RowRecords(t, k, "Only in Instance 1", "ALL"))
                     = IF k \in FrameKeys(df1[t]) \ FrameKeys(df2[t]) THEN 1 ELSE 0
                /\ Cardinality(RowRecords(t, k, "Only in Instance 2", "ALL"))
                     = IF k \in FrameKeys(df2[t]) \ FrameKeys(df1[t]) THEN 1 ELSE 0

\* The two rows of key k hold different values in column col, not both null.
ValuesDiffer(t, k, col) ==
    LET v1 == RowOf(df1[t], k).cells[col]
        v2 == RowOf(df2[t], k).cells[col]
    IN  v1 # v2 /\ ~(isna(v1) /\ isna(v2))

ColumnsLoopEnded == pc = "columns" /\ colTodo = <<>>

RowsLoopEnded == pc = "rows" /\ rowTodo = <<>>

\* C7: a common table without a primary key gets the warning, no row record and no
\* fetch of its rows; the stage raises nothing, and its loop reaches every common table.
C7_NoPrimaryKeySkipped ==
    /\ \A t \in rowVisited :
          key_query[t] = [err |-> FALSE, cols |-> <<>>] =>
              /\ rowOutcome[t] = "no_primary_key"
              /\ OfTable(data_reports, t) = <<>>
              /\ t \notin dataFetched
    /\ pc = "rows" => raised = "none"
    /\ RowsLoopEnded => rowVisited = common_tables

C7_Witness ==
    /\ RowsLoopEnded
    /\ Len(iter_order) = 2
    /\ key_query[iter_order[1]] = [err |-> FALSE, cols |-> <<>>]
    /\ rowOutcome[iter_order[1]] = "no_primary_key"
    /\ rowOutcome[iter_order[2]] = "differences"
    /\ OfTable(data_reports, iter_order[2]) # <<>>

\* The server's answer that get_table_data turned into df.
AsQuery(df) == [err |-> df.none, columns |-> df.columns, rows |-> df.rows]

\* C8: when the loop of a stage ends, it has reached every common table, and the
\* stage's report holds, for each of them, the records that table's own answers give,
\* whatever failed for the other tables.
C8_FailureSkipsOnlyThatTable ==
    /\ ColumnsLoopEnded =>
          \A t \in common_tables :
              /\ t \in colVisited
              /\ OfTable(column_reports, t)
                   = compare_table_columns(t, columns1[t], columns2[t]).report
    /\ RowsLoopEnded =>
          \A t \in common_tables :
              /\ t \in rowVisited
              /\ OfTable(data_reports, t)
                   = compare_table_rows(t, key_query[t], AsQuery(df1[t]), AsQuery(df2[t])).report

C8_Witness ==
    /\ RowsLoopEnded
    /\ Len(iter_order) = 2
    /\ columns1[iter_order[1]].none
    /\ OfTable(column_reports, iter_order[2]) # <<>>
    /\ rowOutcome[iter_order[1]] \in {"skipped", "error"}
    /\ OfTable(data_reports, iter_order[2]) # <<>>

C10_NonFatalCompletes ==
    (pc = "done" /\ conn1 # "none" /\ conn2 # "none" /\ raised # "OSError")
        => outcome = "completed"

C10_Witness ==
    /\ pc = "done"
    /\ outcome = "completed"
    /\ \E t \in colVisited : columns2[t].none
    /\ \E t \in rowVisited : rowOutcome[t] = "skipped"
    /\ \E t \in rowVisited : key_query[t].err

\* column_reports as the loop of compare_columns builds it when the set is iterated
\* in this order and the servers answer c1[t] and c2[t] for table t.
RECURSIVE ColumnReports(_, _, _)
ColumnReports(order, c1, c2) ==
    IF order = <<>> THEN <<>>
    ELSE compare_table_columns(Head(order), c1[Head(order)], c2[Head(order)]).report
         \o ColumnReports(Tail(order), c1, c2)

\* data_reports as the loop of compare_row_data builds it when the set is iterated in
\* this order and the servers answer kq[t], d1[t] and d2[t] for table t.
RECURSIVE DataReports(_, _, _, _)
DataReports(order, kq, d1, d2) ==
    IF order = <<>> THEN <<>>
    ELSE compare_table_rows(Head(order), kq[Head(order)], AsQuery(d1[Head(order)]),
                            AsQuery(d2[Head(order)])).report
         \o DataReports(Tail(order), kq, d1, d2)

\* The three record sequences of a run over the data this run has read, its set of
\* common tables iterated in the order o.
SecondRun(o) ==
    [schema |-> compare_schemas([err |-> FALSE, names |-> tables1],
                                [err |-> FALSE, names |-> tables2], TRUE).report,
     columns |-> ColumnReports(o, columns1, columns2),
     rows |-> DataReports(o, key_query, df1, df2)]

\* C11: a second run over the same tables, columns and rows gives the same table
\* records, column records and row records in the same order as this run, whatever
\* order the second run iterates the set of common tables in.
C11_Idempotent ==
    RowsLoopEnded =>
        \A o \in Orders(common_tables) :
            /\ SecondRun(o).schema = schema_report
            /\ SecondRun(o).columns = column_reports
            /\ SecondRun(o).rows = data_reports

\* A second run that iterates the set in this run's order repeats its records.
SameOrderRepeats ==
    RowsLoopEnded =>
        /\ SecondRun(iter_order).schema = schema_report
        /\ SecondRun(iter_order).columns = column_reports
        /\ SecondRun(iter_order).rows = data_reports

\* The rows of table t were fetched from both instances, merged and compared.
RowCompared(t) == rowOutcome[t] \in {"differences", "no_differences"}

\* C12: a common table for which compare_columns emitted a column record is not
\* row-compared: its rows are compared only if its structure is the same on both sides.
C12_RowsOnlyForIdenticalStructures ==
    \A t \in TableNames : OfTable(column_reports, t) # <<>> => ~RowCompared(t)

\* C13: the stages of a run follow one another as connect, compare_schemas,
\* compare_columns, compare_row_data.  compare_schemas starts only from connect, with
\* both connections open; compare_columns starts only from compare_schemas, which
\* returned a set that is not empty; compare_row_data starts only when the loop of
\* compare_columns has reached every common table; a table goes through a loop only
\* in that loop's stage, and through the loop of compare_row_data only after it went
\* through the loop of compare_columns, compared or skipped.
C13_StageOrder ==
    [][ /\ pc' = "schemas" => (pc = "connect" /\ conn1' = "open" /\ conn2' = "open")
        /\ pc' = "columns" =>
              (pc \in {"schemas", "columns"} /\ common_tables' # {} /\ raised' = "none")
        /\ pc' = "rows" =>
              /\ pc \in {"columns", "rows"}
              /\ common_tables' # {}
              /\ colTodo' = <<>>
              /\ colVisited' = common_tables'
        /\ colVisited' # colVisited => (pc = "columns" /\ rowVisited' = {})
        /\ rowVisited' # rowVisited => (pc = "rows" /\ rowVisited' \subseteq colVisited)
      ]_vars

C13_Witness ==
    /\ pc = "done"
    /\ outcome = "completed"
    /\ Cardinality(common_tables) = 2
    /\ rowVisited = common_tables
    /\ \E t \in common_tables : columns1[t].none /\ RowCompared(t)
    /\ \E t \in common_tables : ~columns1[t].none /\ ~columns2[t].none /\ RowCompared(t)

\* The tables that have a record in report r.
TablesIn(r) == {r[i].Table : i \in DOMAIN r}

\* C14: a pass of the loop of compare_row_data over table t leaves the records that
\* data_reports held in place and adds only records of t, all at its end; if the pass
\* raised an error it adds none, so data_reports is unchanged and holds no record of
\* t; and tables_with_data_differences is always the number of tables that have a
\* record in data_reports.
C14_RowRecordsAtomic ==
    [][ /\ \A t \in rowVisited' \ rowVisited :
              /\ Len(data_reports') >= Len(data_reports)
              /\ SubSeq(data_reports', 1, Len(data_reports)) = data_reports
              /\ \A i \in DOMAIN data_reports' :
                    i > Len(data_reports) => data_reports'[i].Table = t
              /\ rowOutcome'[t] = "error" =>
                    (data_reports' = data_reports /\ OfTable(data_reports', t) = <<>>)
        /\ tables_with_data_differences' = Cardinality(TablesIn(data_reports'))
      ]_vars

C14_Witness ==
    /\ RowsLoopEnded
    /\ Len(iter_order) = 2
    /\ rowOutcome[iter_order[1]] = "differences"
    /\ rowOutcome[iter_order[2]] = "error"
    /\ FrameKeys(df1[iter_order[2]]) # FrameKeys(df2[iter_order[2]])
    /\ data_reports # <<>>
    /\ TablesIn(data_reports) = {iter_order[1]}
    /\ tables_with_data_differences = 1

====
